---- MODULE Spec2Model ----
(***************************************************************************)
(* Model of cvdata/split.py: the identifier index (map_ids_to_paths), the   *)
(* two-way manifest split (create_split_files, split_ids_train_valid), the  *)
(* three-way split with relocation (split_train_valid_test, _split_files,   *)
(* relocate_file) and the command-line entry point (__main__).              *)
(*                                                                         *)
(* File names are sequences of tokens: a stem token ("a") followed by       *)
(* suffix tokens (".jpg"); str.endswith and pathlib's Path.stem are         *)
(* computed on those sequences.  A path is a record [dir, name].            *)
(* Percentages are floats in the program; here they are integer tenths, so  *)
(* train_pct * len(ids) is the rational (tenths * n) / PctDen and Python's  *)
(* round() is round-half-to-even on it.                                     *)
(***************************************************************************)
EXTENDS Integers, Sequences, FiniteSets

VARIABLES
    pc,              \* position of the running entry point
    args,            \* parsed arguments: train/valid/test tenths, copy flag, format
    fs,              \* directory name -> set of entries [name, isfile, data]
    dirs,            \* the destination directories that exist
    fs0,             \* the file system before the run (never changes)
    images,          \* identifier -> path of the image index
    annotations,     \* identifier -> path of the annotation index
    ids,             \* the matching identifiers, in shuffled order
    training_ids,
    validation_ids,
    testing_ids,
    pos,             \* next relocation of the run (index into Jobs)
    err,             \* exception that left the entry point, "none" if none
    nops,            \* number of shutil.copy2 / shutil.move calls that succeeded
    listing,         \* os.listdir result handed to map_ids_to_paths (index run)
    extensions,      \* extension list handed to map_ids_to_paths (index run)
    ids_to_paths,    \* value map_ids_to_paths returned (index run)
    train_file,      \* lines of dest_dir/train.txt, <<"absent">> marks no file
    valid_file       \* lines of dest_dir/valid.txt

vars == <<pc, args, fs, dirs, fs0, images, annotations, ids, training_ids,
          validation_ids, testing_ids, pos, err, nops, listing, extensions,
          ids_to_paths, train_file, valid_file>>

----------------------------------------------------------------------------
(* Bounds of the model *)

\* number of distinct file stems in the split and manifest runs
NumStems == 3
\* longest directory listing of the index run
MaxFiles == 3

\* denominator of the percentages: they are tenths
PctDen == 10

StemNames == <<"a", "b", "c", "d", "e">>
Stems == {StemNames[i] : i \in 1..NumStems}

SuffixTokens == {".jpg", ".png", ".xml", ".txt", ".json", ".csv"}

----------------------------------------------------------------------------
(* Strings and paths *)

\* a table that gives every format the PASCAL extension
FormatExtensionsAllXml ==
    [coco |-> ".xml", darknet |-> ".xml", kitti |-> ".xml",
     openimages |-> ".xml", pascal |-> ".xml"]

\* _FORMAT_EXTENSIONS
FORMAT_EXTENSIONS ==
    [coco |-> ".json", darknet |-> ".txt", kitti |-> ".txt",
     openimages |-> ".csv", pascal |-> ".xml"]

\* str.endswith(ext) on a file name
EndsWith(name, ext) == Len(name) > 0 /\ name[Len(name)] = ext

\* pathlib.Path(p).stem: the name without its last suffix; a name that is
\* only a leading-dot token (".jpg") has no suffix
Stem(name) ==
    IF Len(name) > 1 /\ name[Len(name)] \in SuffixTokens
    THEN SubSeq(name, 1, Len(name) - 1)
    ELSE name

\* os.path.join(directory, f)
JoinPath(directory, name) == [dir |-> directory, name |-> name]

\* os.path.basename(path)
Basename(path) == path.name

\* an assignment that keeps the value a key already has
DictPutFirstWins(m, key, value) ==
    [k \in DOMAIN m \cup {key} |-> IF k \in DOMAIN m THEN m[k] ELSE value]

\* dict[key] = value: a later assignment replaces an earlier one
DictPut(m, key, value) ==
    [k \in DOMAIN m \cup {key} |-> IF k = key THEN value ELSE m[k]]

EmptyDict == [k \in {} |-> k]

----------------------------------------------------------------------------
(* map_ids_to_paths *)

\* a test that forgets the extension
MatchesAnyExtension(entry, ext) == entry.isfile

\* the test of the inner loop: a regular file whose path ends with ext
Matches(entry, ext) == entry.isfile /\ EndsWith(entry.name, ext)

\* the inner loop, over the listing in listing order, for one extension
RECURSIVE ScanFiles(_, _, _, _, _)
ScanFiles(m, directory, files, ext, k) ==
    IF k > Len(files) THEN m
    ELSE ScanFiles(IF Matches(files[k], ext)
                   THEN DictPut(m, Stem(files[k].name),
                                JoinPath(directory, files[k].name))
                   ELSE m,
                   directory, files, ext, k + 1)

\* the outer loop, over the extensions in list order
RECURSIVE ScanExts(_, _, _, _, _)
ScanExts(m, directory, files, exts, j) ==
    IF j > Len(exts) THEN m
    ELSE ScanExts(ScanFiles(m, directory, files, exts[j], 1),
                  directory, files, exts, j + 1)

MapIdsToPaths(directory, files, exts) ==
    ScanExts(EmptyDict, directory, files, exts, 1)

\* os.listdir of a directory held as a set: some order of its entries
RECURSIVE SetToSeq(_)
SetToSeq(S) ==
    IF S = {} THEN <<>>
    ELSE LET x == CHOOSE y \in S : TRUE IN <<x>> \o SetToSeq(S \ {x})

----------------------------------------------------------------------------
(* The index run: one call of map_ids_to_paths *)

File(name) == [name |-> name, isfile |-> TRUE]
Subdir(name) == [name |-> name, isfile |-> FALSE]

\* entries a listing of the index run is drawn from
IndexEntries ==
    { File(<<"a", ".jpg">>), File(<<"a", ".png">>), File(<<"b", ".png">>),
      File(<<"c", ".jpg">>), Subdir(<<"d", ".jpg">>), File(<<".jpg">>) }

IndexExtensionLists ==
    { <<".jpg">>, <<".png">>, <<".jpg", ".png">>, <<".png", ".jpg">>, <<".xml">> }

\* sequences of distinct entries, no longer than MaxFiles
Listings ==
    UNION { { s \in [1..n -> IndexEntries] :
                \A i, j \in 1..n : i # j => s[i] # s[j] } : n \in 0..MaxFiles }

NoFile == <<"absent">>

Idle ==
    /\ args = [train |-> 0, valid |-> 0, test |-> 0, copy |-> TRUE,
               format |-> "pascal"]
    /\ fs = [d \in {} |-> {}]
    /\ fs0 = [d \in {} |-> {}]
    /\ dirs = {}
    /\ images = EmptyDict
    /\ annotations = EmptyDict
    /\ ids = <<>>
    /\ training_ids = <<>>
    /\ validation_ids = <<>>
    /\ testing_ids = <<>>
    /\ pos = 0
    /\ err = "none"
    /\ nops = 0
    /\ train_file = NoFile
    /\ valid_file = NoFile

InitIndex ==
    /\ pc = "index_call"
    /\ listing \in Listings
    /\ extensions \in IndexExtensionLists
    /\ ids_to_paths = EmptyDict
    /\ Idle

IndexCall ==
    /\ pc = "index_call"
    /\ ids_to_paths' = MapIdsToPaths("directory", listing, extensions)
    /\ pc' = "index_ret"
    /\ UNCHANGED <<args, fs, dirs, fs0, images, annotations, ids, training_ids,
                   validation_ids, testing_ids, pos, err, nops, listing,
                   extensions, train_file, valid_file>>

----------------------------------------------------------------------------
(* Python arithmetic and slicing *)

\* int(round(num / den)) for den > 0: Python 3 rounds a tie to the even integer
RoundHalfEven(num, den) ==
    LET q == num \div den
        r == num % den
    IN  IF 2 * r < den THEN q
        ELSE IF 2 * r > den THEN q + 1
        ELSE IF q % 2 = 0 THEN q ELSE q + 1

\* how a slice bound is normalised against a list of length n
SliceBound(i, n) ==
    IF i < 0 THEN (IF i + n < 0 THEN 0 ELSE i + n)
    ELSE IF i > n THEN n ELSE i

\* s[lo:hi]
PySlice(s, lo, hi) ==
    SubSeq(s, SliceBound(lo, Len(s)) + 1, SliceBound(hi, Len(s)))

\* random.shuffle: the list in any order
Shuffles(S) ==
    { s \in [1..Cardinality(S) -> S] :
        \A i, j \in 1..Cardinality(S) : i # j => s[i] # s[j] }

Range(s) == { s[i] : i \in 1..Len(s) }

----------------------------------------------------------------------------
(* The file system of the split run and of the manifest run *)

ImagesDir == "images_dir"
AnnotationsDir == "annotations_dir"

\* split_arguments[...] of the three destinations, in the order they are filled
DestAnnotationsDirs ==
    <<"train_annotations_dir", "val_annotations_dir", "test_annotations_dir">>
DestImagesDirs ==
    <<"train_images_dir", "val_images_dir", "test_images_dir">>

DestDirs == Range(DestAnnotationsDirs) \cup Range(DestImagesDirs)
ManifestDir == "dest_dir"
AllDirs == {ImagesDir, AnnotationsDir, ManifestDir} \cup DestDirs

\* a regular file as first written at dir/name: its data is its origin
Original(directory, name) ==
    [name |-> name, isfile |-> TRUE, data |-> JoinPath(directory, name)]

\* a file left in a destination directory by an earlier run
Stale(name) ==
    [name |-> name, isfile |-> TRUE, data |-> JoinPath("stale", name)]

\* What each stem has: bit k of profile[i] says whether stem i has a file
\* with the k-th suffix.  The program never looks inside a stem and
\* random.shuffle puts the identifiers in every order, so contents that differ
\* only by a renaming of the stems give the same runs: one content of each
\* renaming class is drawn (the profiles do not increase along the stems).
Profiles ==
    { p \in [1..NumStems -> 0..7] :
        \A i \in 1..(NumStems - 1) : p[i] >= p[i + 1] }

HasBit(code, k) == (code \div <<1, 2, 4>>[k]) % 2 = 1

\* the files of the k-th suffix that a profile puts into a directory
FilesOf(profile, k, directory, suffix) ==
    { Original(directory, <<StemNames[i], suffix>>) :
        i \in {j \in 1..NumStems : HasBit(profile[j], k)} }

HasFile(f, directory, name) == \E e \in f[directory] : e.name = name

FileAt(f, directory, name) == CHOOSE e \in f[directory] : e.name = name

\* the matching identifiers of the two indexes
MatchingIds(imgs, anns) == DOMAIN imgs \cap DOMAIN anns

----------------------------------------------------------------------------
(* __main__ and split_train_valid_test *)

\* the --train_percentage, --valid_percentage, --test_percentage values tried
PercentageTriples ==
    { <<7, 2, 1>>, <<5, 5, 0>>, <<10, 0, 0>>, <<3, 3, 4>>, <<0, 5, 5>>,
      <<10, -5, 5>>, <<-2, 4, 8>>,
      <<7, 2, 2>>, <<5, 0, 0>>, <<15, -5, 5>> }

Formats == {"pascal", "kitti"}

InitSplit ==
    /\ pc = "main"
    /\ \E t \in PercentageTriples, c \in BOOLEAN, f \in Formats :
          args = [train |-> t[1], valid |-> t[2], test |-> t[3],
                  copy |-> c, format |-> f]
    /\ \E p \in Profiles,
          stale \in {{}, {Stale(<<x, ".jpg">>) : x \in Stems}} :
          fs = [d \in AllDirs |->
                  IF d = ImagesDir
                  THEN FilesOf(p, 1, ImagesDir, ".jpg")
                          \cup FilesOf(p, 2, ImagesDir, ".png")
                  ELSE IF d = AnnotationsDir
                  THEN FilesOf(p, 3, AnnotationsDir, ".xml")
                  ELSE IF d = DestImagesDirs[1] THEN stale
                  ELSE {}]
    /\ fs0 = fs
    /\ dirs = {d \in DestDirs : fs[d] # {}}
    /\ images = EmptyDict
    /\ annotations = EmptyDict
    /\ ids = <<>>
    /\ training_ids = <<>>
    /\ validation_ids = <<>>
    /\ testing_ids = <<>>
    /\ pos = 0
    /\ err = "none"
    /\ nops = 0
    /\ listing = <<>>
    /\ extensions = <<>>
    /\ ids_to_paths = EmptyDict
    /\ train_file = NoFile
    /\ valid_file = NoFile

\* math.isclose(1.0, total_percentage), on tenths
SumsToOne(a) == a.train + a.valid + a.test = PctDen

\* the check of __main__ fails: ValueError, before split_train_valid_test
MainReject ==
    /\ pc = "main"
    /\ ~SumsToOne(args)
    /\ pc' = "failed"
    /\ err' = "ValueError"
    /\ UNCHANGED <<args, fs, dirs, fs0, images, annotations, ids, training_ids,
                   validation_ids, testing_ids, pos, nops, listing, extensions,
                   ids_to_paths, train_file, valid_file>>

\* the check of __main__ passes: split_train_valid_test(args) is called
MainAccept ==
    /\ pc = "main"
    /\ SumsToOne(args)
    /\ pc' = "split"
    /\ UNCHANGED <<args, fs, dirs, fs0, images, annotations, ids, training_ids,
                   validation_ids, testing_ids, pos, err, nops, listing,
                   extensions, ids_to_paths, train_file, valid_file>>

\* final_train_index
FinalTrainIndex(a, n) == RoundHalfEven(a.train * n, PctDen)

\* a per-group rounding instead of the cumulative one
FinalValidIndexPerGroup(a, n) ==
    RoundHalfEven(a.train * n, PctDen) + RoundHalfEven(a.valid * n, PctDen)

\* final_valid_index
FinalValidIndex(a, n) == RoundHalfEven((a.train + a.valid) * n, PctDen)

\* a testing slice that starts one identifier late
TestingSliceLate(shuffled, a) ==
    PySlice(shuffled, FinalValidIndex(a, Len(shuffled)) + 1, Len(shuffled))

TrainingSlice(shuffled, a) ==
    PySlice(shuffled, 0, FinalTrainIndex(a, Len(shuffled)))

ValidationSlice(shuffled, a) ==
    PySlice(shuffled, FinalTrainIndex(a, Len(shuffled)),
            FinalValidIndex(a, Len(shuffled)))

TestingSlice(shuffled, a) ==
    PySlice(shuffled, FinalValidIndex(a, Len(shuffled)), Len(shuffled))

\* split_train_valid_test up to the first _split_files call: the six
\* makedirs, the two indexes, the intersection, the shuffle and the slices
SplitStart ==
    /\ pc = "split"
    /\ dirs' = dirs \cup DestDirs
    /\ images' = MapIdsToPaths(ImagesDir, SetToSeq(fs[ImagesDir]),
                               <<".jpg", ".png">>)
    /\ annotations' = MapIdsToPaths(AnnotationsDir, SetToSeq(fs[AnnotationsDir]),
                                    <<FORMAT_EXTENSIONS[args.format]>>)
    /\ \E shuffled \in Shuffles(MatchingIds(images', annotations')) :
          /\ ids' = shuffled
          /\ training_ids' = TrainingSlice(shuffled, args)
          /\ validation_ids' = ValidationSlice(shuffled, args)
          /\ testing_ids' = TestingSlice(shuffled, args)
    /\ pos' = 1
    /\ pc' = "relocate"
    /\ UNCHANGED <<args, fs, fs0, err, nops, listing, extensions, ids_to_paths,
                   train_file, valid_file>>

----------------------------------------------------------------------------
(* _split_files and relocate_file *)

\* the relocate_file calls of one _split_files call, in call order
RECURSIVE GroupJobs(_, _, _, _, _)
GroupJobs(g, file_ids, anns, imgs, k) ==
    IF k > Len(file_ids) THEN <<>>
    ELSE <<[group |-> g, id |-> file_ids[k], src |-> anns[file_ids[k]],
            dest |-> DestAnnotationsDirs[g]],
           [group |-> g, id |-> file_ids[k], src |-> imgs[file_ids[k]],
            dest |-> DestImagesDirs[g]]>>
         \o GroupJobs(g, file_ids, anns, imgs, k + 1)

\* the relocate_file calls of the three _split_files calls
Jobs ==
    GroupJobs(1, training_ids, annotations, images, 1)
    \o GroupJobs(2, validation_ids, annotations, images, 1)
    \o GroupJobs(3, testing_ids, annotations, images, 1)

\* shutil.copy2(src, dest_dir/basename): the destination file is created or
\* replaced, the source stays
CopyFile(f, src, dest) ==
    LET e == FileAt(f, src.dir, src.name)
    IN  [f EXCEPT ![dest] = {x \in @ : x.name # Basename(src)} \cup {e}]

\* shutil.move(src, dest_dir/basename): as the copy, and the source is gone
MoveFile(f, src, dest) ==
    LET e == FileAt(f, src.dir, src.name)
        g == [f EXCEPT ![src.dir] = @ \ {e}]
    IN  [g EXCEPT ![dest] = {x \in @ : x.name # Basename(src)} \cup {e}]

\* a move that leaves the source behind
RelocatedAlwaysCopy(f, copy_file, src, dest) == CopyFile(f, src, dest)

\* relocate_file
Relocated(f, copy_file, src, dest) ==
    IF copy_file THEN CopyFile(f, src, dest) ELSE MoveFile(f, src, dest)

\* one relocate_file call of the loop of _split_files returns 0
RelocateFile ==
    /\ pc = "relocate"
    /\ pos <= Len(Jobs)
    /\ HasFile(fs, Jobs[pos].src.dir, Jobs[pos].src.name)
    /\ fs' = Relocated(fs, args.copy, Jobs[pos].src, Jobs[pos].dest)
    /\ nops' = nops + 1
    /\ pos' = pos + 1
    /\ UNCHANGED <<pc, args, dirs, fs0, images, annotations, ids, training_ids,
                   validation_ids, testing_ids, err, listing, extensions,
                   ids_to_paths, train_file, valid_file>>

\* a failure that is swallowed: the loop goes on with the next file
RelocateFailSkip ==
    /\ pc = "relocate"
    /\ pos <= Len(Jobs)
    /\ pos' = pos + 1
    /\ UNCHANGED <<pc, args, fs, dirs, fs0, images, annotations, ids,
                   training_ids, validation_ids, testing_ids, err, nops, listing,
                   extensions, ids_to_paths, train_file, valid_file>>

\* one relocate_file call raises (the source is missing, or the copy or move
\* fails in the operating system): nothing catches it, so it leaves
\* _split_files, split_train_valid_test and the program
RelocateFail ==
    /\ pc = "relocate"
    /\ pos <= Len(Jobs)
    /\ pc' = "failed"
    /\ err' = IF HasFile(fs, Jobs[pos].src.dir, Jobs[pos].src.name)
              THEN "OSError" ELSE "FileNotFoundError"
    /\ UNCHANGED <<args, fs, dirs, fs0, images, annotations, ids, training_ids,
                   validation_ids, testing_ids, pos, nops, listing, extensions,
                   ids_to_paths, train_file, valid_file>>

\* the third _split_files call has returned
SplitReturn ==
    /\ pc = "relocate"
    /\ pos > Len(Jobs)
    /\ pc' = "done"
    /\ UNCHANGED <<args, fs, dirs, fs0, images, annotations, ids, training_ids,
                   validation_ids, testing_ids, pos, err, nops, listing,
                   extensions, ids_to_paths, train_file, valid_file>>

----------------------------------------------------------------------------
(* create_split_files and split_ids_train_valid *)

\* the loop of create_split_files: for img_ext in (".jpg", ".png")
ManifestImageExts == <<".jpg", ".png">>

UsePrefix == "use_prefix"

\* the train_pct values tried
TrainPcts == {0, 3, 5, 10}

\* split_index of split_ids_train_valid
SplitIndex(train_pct, n) == RoundHalfEven(train_pct * n, PctDen)

\* os.path.join(use_prefix, img_id + img_ext), for each identifier in order
ManifestLines(file_ids, img_ext) ==
    [k \in 1..Len(file_ids) |-> JoinPath(UsePrefix, file_ids[k] \o <<img_ext>>)]

\* open(path, "w+") and the writes: the file holds these lines and no others
Written(old, lines) == lines

InitManifest ==
    /\ pc = "manifest_loop"
    /\ \E t \in TrainPcts :
          args = [train |-> t, valid |-> 0, test |-> 0, copy |-> TRUE,
                  format |-> "darknet"]
    /\ \E p \in Profiles :
          fs = [d \in AllDirs |->
                  IF d = ImagesDir
                  THEN FilesOf(p, 1, ImagesDir, ".jpg")
                          \cup FilesOf(p, 2, ImagesDir, ".png")
                          \cup FilesOf(p, 3, ImagesDir, ".txt")
                  ELSE {}]
    /\ fs0 = fs
    /\ dirs = {}
    /\ images = EmptyDict
    /\ annotations = EmptyDict
    /\ ids = <<>>
    /\ training_ids = <<>>
    /\ validation_ids = <<>>
    /\ testing_ids = <<>>
    /\ pos = 1
    /\ err = "none"
    /\ nops = 0
    /\ listing = <<>>
    /\ extensions = <<>>
    /\ ids_to_paths = EmptyDict
    /\ train_file = NoFile
    /\ valid_file = NoFile

\* one pass of the loop of create_split_files
ManifestPass ==
    /\ pc = "manifest_loop"
    /\ pos <= Len(ManifestImageExts)
    /\ images' = MapIdsToPaths(ImagesDir, SetToSeq(fs[ImagesDir]),
                               <<ManifestImageExts[pos]>>)
    /\ annotations' = MapIdsToPaths(ImagesDir, SetToSeq(fs[ImagesDir]),
                                    <<".txt">>)
    /\ \E shuffled \in Shuffles(MatchingIds(images', annotations')) :
          /\ ids' = shuffled
          /\ training_ids' =
                PySlice(shuffled, 0, SplitIndex(args.train, Len(shuffled)))
          /\ validation_ids' =
                PySlice(shuffled, SplitIndex(args.train, Len(shuffled)),
                        Len(shuffled))
    /\ dirs' = dirs \cup {ManifestDir}
    /\ train_file' =
          Written(train_file, ManifestLines(training_ids', ManifestImageExts[pos]))
    /\ valid_file' =
          Written(valid_file, ManifestLines(validation_ids', ManifestImageExts[pos]))
    /\ pos' = pos + 1
    /\ UNCHANGED <<pc, args, fs, fs0, testing_ids, err, nops, listing,
                   extensions, ids_to_paths>>

\* return train_file_path, valid_file_path
ManifestReturn ==
    /\ pc = "manifest_loop"
    /\ pos > Len(ManifestImageExts)
    /\ pc' = "manifest_ret"
    /\ UNCHANGED <<args, fs, dirs, fs0, images, annotations, ids, training_ids,
                   validation_ids, testing_ids, pos, err, nops, listing,
                   extensions, ids_to_paths, train_file, valid_file>>

----------------------------------------------------------------------------
(* The program: any of its three entry points runs once *)

Init == InitIndex \/ InitSplit \/ InitManifest

Next ==
    \/ IndexCall
    \/ MainReject
    \/ MainAccept
    \/ SplitStart
    \/ RelocateFile
    \/ RelocateFail
    \/ SplitReturn
    \/ ManifestPass
    \/ ManifestReturn

Spec == Init /\ [][Next]_vars

----------------------------------------------------------------------------
(* Vocabulary of the properties, stated on the file system before the run *)

\* the run is the command-line split
SplitRun == pc \in {"main", "split", "relocate", "done", "failed"}

\* split_train_valid_test has computed its three groups
Started == pc \in {"relocate", "done"} \/ (pc = "failed" /\ err # "ValueError")

\* the run is create_split_files
ManifestRun == pc \in {"manifest_loop", "manifest_ret"}

\* each percentage is in [0, 1] and they sum to 1.0
ValidPercentages(a) ==
    /\ a.train \in 0..PctDen
    /\ a.valid \in 0..PctDen
    /\ a.test \in 0..PctDen
    /\ a.train + a.valid + a.test = PctDen

\* the annotation extension each format stands for
ExpectedSuffix(format) ==
    CASE format = "pascal" -> ".xml"
      [] format = "kitti" -> ".txt"
      [] format = "darknet" -> ".txt"
      [] format = "coco" -> ".json"
      [] OTHER -> ".csv"

IsImage(e) ==
    e.isfile /\ (EndsWith(e.name, ".jpg") \/ EndsWith(e.name, ".png"))

IsAnnotation(e) == e.isfile /\ EndsWith(e.name, ExpectedSuffix(args.format))

\* identifiers with an image in images_dir and an annotation in annotations_dir
Eligible0 ==
    { Stem(e.name) : e \in {x \in fs0[ImagesDir] : IsImage(x)} }
    \cap { Stem(e.name) : e \in {x \in fs0[AnnotationsDir] : IsAnnotation(x)} }

Occurrences(s, x) == Cardinality({k \in 1..Len(s) : s[k] = x})

Abs(i) == IF i < 0 THEN -i ELSE i

\* k is num/den rounded to the nearest integer, a tie going to the even one
IsRounded(k, num, den) ==
    /\ 2 * Abs(num - k * den) <= den
    /\ 2 * Abs(num - k * den) = den => k % 2 = 0

\* every relocation of group g has been made
GroupRelocated(g) ==
    Started /\ \A k \in 1..Len(Jobs) : Jobs[k].group = g => k < pos

----------------------------------------------------------------------------
(* C1: with percentages in [0,1] that sum to 1.0 and a nonempty set of      *)
(* eligible identifiers, the training, validation and testing groups are    *)
(* pairwise disjoint, their sizes sum to the number of eligible             *)
(* identifiers, and every eligible identifier is in exactly one group,      *)
(* whatever the shuffle.                                                    *)
C1_GroupsPartitionEligible ==
    (Started /\ ValidPercentages(args) /\ Eligible0 # {}) =>
        /\ Range(training_ids) \cap Range(validation_ids) = {}
        /\ Range(training_ids) \cap Range(testing_ids) = {}
        /\ Range(validation_ids) \cap Range(testing_ids) = {}
        /\ Len(training_ids) + Len(validation_ids) + Len(testing_ids)
              = Cardinality(Eligible0)
        /\ Range(training_ids) \cup Range(validation_ids)
              \cup Range(testing_ids) = Eligible0
        /\ \A id \in Eligible0 :
              Occurrences(training_ids, id) + Occurrences(validation_ids, id)
                 + Occurrences(testing_ids, id) = 1

C1_Witness ==
    /\ Started
    /\ ValidPercentages(args)
    /\ Cardinality(Eligible0) = NumStems
    /\ Len(training_ids) > 0
    /\ Len(validation_ids) > 0
    /\ Len(testing_ids) > 0

(* C2: percentages that break the precondition (one outside [0,1], or a sum *)
(* other than 1.0) make the run fail with the invalid-percentages error     *)
(* before any directory is created and before any file is copied or moved.  *)
C2_InvalidPercentagesRejected ==
    (SplitRun /\ ~ValidPercentages(args)) =>
        /\ fs = fs0
        /\ dirs = {d \in DestDirs : fs0[d] # {}}
        /\ nops = 0
        /\ pc \in {"done", "failed"} => err = "ValueError"

(* C3: a file whose identifier is not in both indexes is never copied or    *)
(* moved into a destination directory and stays as it was at its source.    *)
C3_UnmatchedFilesUntouched ==
    SplitRun =>
        \A d \in {ImagesDir, AnnotationsDir} : \A e \in fs0[d] :
            Stem(e.name) \notin Eligible0 =>
                /\ e \in fs[d]
                /\ \A dd \in DestDirs : \A x \in fs[dd] : x.data # e.data

C3_Witness ==
    /\ pc = "done"
    /\ err = "none"
    /\ nops > 0
    /\ \E e \in fs0[ImagesDir] : Stem(e.name) \notin Eligible0
    /\ \E e \in fs0[AnnotationsDir] : Stem(e.name) \notin Eligible0

(* C4: once a group is relocated, in copy mode each of its source files is  *)
(* still at its original path, unchanged, and the destination directory     *)
(* holds an identical file under the same basename; in move mode the source *)
(* file is gone from its original path and is found in the destination      *)
(* directory only.                                                          *)
C4_CopyKeepsMoveRemoves ==
    \A g \in 1..3 : GroupRelocated(g) =>
        \A k \in 1..Len(Jobs) : Jobs[k].group = g =>
            LET j == Jobs[k]
                orig == FileAt(fs0, j.src.dir, j.src.name)
            IN  /\ \E x \in fs[j.dest] :
                      x.name = j.src.name /\ x.data = orig.data
                /\ \A x \in fs[j.dest] :
                      x.name = j.src.name => x.data = orig.data
                /\ args.copy => orig \in fs[j.src.dir]
                /\ ~args.copy =>
                      /\ ~HasFile(fs, j.src.dir, j.src.name)
                      /\ \A d \in AllDirs \ {j.dest} :
                            \A x \in fs[d] : x.data # orig.data

C4_Witness ==
    /\ pc = "done"
    /\ ~args.copy
    /\ fs0[DestImagesDirs[1]] # {}
    /\ \E k \in 1..Len(Jobs) :
          /\ Jobs[k].dest = DestImagesDirs[1]
          /\ HasFile(fs0, DestImagesDirs[1], Jobs[k].src.name)
    /\ Len(testing_ids) > 0

(* C5: map_ids_to_paths returns a mapping whose keys are exactly the        *)
(* identifiers of the regular files of the directory that end with a listed *)
(* extension, and an identifier matched by several listed extensions maps   *)
(* to the file with the extension that is last in the list.                 *)
C5_IndexKeysAndLastExtensionWins ==
    pc = "index_ret" =>
        LET files == {e \in Range(listing) : e.isfile}
            hits(id, j) ==
                {e \in files : Stem(e.name) = id /\ EndsWith(e.name, extensions[j])}
            last(id) ==
                CHOOSE j \in 1..Len(extensions) :
                    /\ hits(id, j) # {}
                    /\ \A i \in (j + 1)..Len(extensions) : hits(id, i) = {}
        IN  /\ DOMAIN ids_to_paths =
                 { Stem(e.name) : e \in
                     {x \in files : \E j \in 1..Len(extensions) :
                                       EndsWith(x.name, extensions[j])} }
            /\ \A id \in DOMAIN ids_to_paths :
                 /\ ids_to_paths[id].dir = "directory"
                 /\ \E e \in hits(id, last(id)) : ids_to_paths[id].name = e.name

C5_Witness ==
    /\ pc = "index_ret"
    /\ extensions = <<".jpg", ".png">>
    /\ File(<<"a", ".jpg">>) \in Range(listing)
    /\ File(<<"a", ".png">>) \in Range(listing)
    /\ Subdir(<<"d", ".jpg">>) \in Range(listing)
    /\ ids_to_paths[<<"a">>].name = <<"a", ".png">>

(* C6: with an empty intersection of image and annotation identifiers and   *)
(* valid percentages, the split ends without error, the three groups are    *)
(* empty and no file is copied or moved, in copy mode and in move mode.     *)
C6_EmptyIntersectionNoOperations ==
    (Started /\ ValidPercentages(args) /\ Eligible0 = {}) =>
        /\ training_ids = <<>>
        /\ validation_ids = <<>>
        /\ testing_ids = <<>>
        /\ Jobs = <<>>
        /\ nops = 0
        /\ fs = fs0
        /\ pc # "failed"
        /\ err = "none"

C6_Witness ==
    /\ pc = "done"
    /\ ValidPercentages(args)
    /\ Eligible0 = {}
    /\ ~args.copy
    /\ fs0[ImagesDir] # {}
    /\ fs0[AnnotationsDir] # {}

(* C7: the sizes of the groups are fixed by the number of eligible          *)
(* identifiers and the percentages alone: the train group ends at           *)
(* round(train_pct * n), the valid group at round((train_pct+valid_pct)*n), *)
(* the last group takes the rest; the shuffle changes none of the sizes.    *)
C7_SizesFixedByCountAndPercentages ==
    /\ (Started /\ ValidPercentages(args)) =>
          LET n == Cardinality(Eligible0)
          IN  /\ IsRounded(Len(training_ids), args.train * n, PctDen)
              /\ IsRounded(Len(training_ids) + Len(validation_ids),
                           (args.train + args.valid) * n, PctDen)
              /\ Len(testing_ids)
                    = n - (Len(training_ids) + Len(validation_ids))
    /\ (ManifestRun /\ pos > 1) =>
          /\ IsRounded(Len(training_ids), args.train * Len(ids), PctDen)
          /\ Len(validation_ids) = Len(ids) - Len(training_ids)

C7_Witness ==
    /\ Started
    /\ ValidPercentages(args)
    /\ Cardinality(Eligible0) = 3
    /\ (2 * args.train * 3) % (2 * PctDen) = PctDen
    /\ ids[1] # CHOOSE x \in Eligible0 : TRUE
    /\ Len(validation_ids) > 0

(* C8: when create_split_files returns, train.txt and valid.txt together    *)
(* hold exactly one line for every .jpg or .png image of images_dir that    *)
(* has a .txt annotation with the same identifier, no other line, no line   *)
(* in both files, and images_dir is as it was.                              *)
C8_ManifestsListEveryAnnotatedImage ==
    pc = "manifest_ret" =>
        LET annotated ==
               {e \in fs0[ImagesDir] :
                   /\ IsImage(e)
                   /\ HasFile(fs0, ImagesDir, Stem(e.name) \o <<".txt">>)}
            expected == {JoinPath(UsePrefix, e.name) : e \in annotated}
        IN  /\ Range(train_file) \cup Range(valid_file) = expected
            /\ Range(train_file) \cap Range(valid_file) = {}
            /\ Len(train_file) + Len(valid_file) = Cardinality(expected)
            /\ fs = fs0

(* C9: a copy or move that fails ends the run with the error: every         *)
(* relocation before it was made and stays made, none after it is made,     *)
(* and no failed relocation is skipped with the loop going on.              *)
C9_FailureAbortsRelocation ==
    /\ [](Started =>
            /\ nops = pos - 1
            /\ pc = "done" => (err = "none" /\ nops = Len(Jobs))
            /\ pc = "failed" =>
                  /\ err \in {"OSError", "FileNotFoundError"}
                  /\ pos <= Len(Jobs)
                  /\ \A k \in 1..(pos - 1) :
                        HasFile(fs, Jobs[k].dest, Jobs[k].src.name))
    /\ [][pc = "failed" => (fs' = fs /\ nops' = nops /\ pc' = "failed")]_vars

C9_Witness ==
    /\ pc = "failed"
    /\ err = "OSError"
    /\ ~args.copy
    /\ pos > 2
    /\ pos < Len(Jobs)
    /\ Jobs[pos].group = 2

(* C10: after a split that ends without a relocation failure, with the      *)
(* destination directories empty beforehand, the image and the annotation   *)
(* of every eligible identifier are in the directories of one and the same  *)
(* split and in those of no other split.                                    *)
C10_ImageAndAnnotationInOneSplit ==
    (pc = "done" /\ \A d \in DestDirs : fs0[d] = {}) =>
        \A id \in Eligible0 :
            \E g \in 1..3 :
                /\ HasFile(fs, DestImagesDirs[g], images[id].name)
                /\ HasFile(fs, DestAnnotationsDirs[g], annotations[id].name)
                /\ \A h \in (1..3) \ {g} :
                      /\ ~HasFile(fs, DestImagesDirs[h], images[id].name)
                      /\ ~HasFile(fs, DestAnnotationsDirs[h],
                                  annotations[id].name)

====
